---- MODULE Spec2Model ----
(***************************************************************************)
(* A model of src/src/blockchain.py: the Blockchain class (chain, pending  *)
(* transactions, peer set, proof of work, chain validation, consensus) and *)
(* the Flask handlers that drive it.                                       *)
(*                                                                         *)
(* Strings that only serve as names (senders, recipients, the node         *)
(* identifier) are small naturals.  SHA-256 is replaced by a deterministic *)
(* polynomial digest over the serialised input; a hexdigest is the pair    *)
(* <<head, tail>>, head standing for its first six characters and tail for *)
(* the remaining ones.                                                     *)
(***************************************************************************)
EXTENDS Integers, Sequences, FiniteSets, TLC

\* ------------------------------------------------------------- bounds
MaxChain == 3
MaxTx == 2
MaxProof == 40

Nodes == {1, 2}

\* ------------------------------------------------ hashlib.sha256 (toy)
Modulus == 999983
Multiplier == 131
HeadRange == 4

Absorb(h, x) == (h * Multiplier + x + 1) % Modulus

RECURSIVE Fold(_, _)
Fold(s, h) == IF s = <<>> THEN h ELSE Fold(Tail(s), Absorb(h, Head(s)))

\* hashlib.sha256(data).hexdigest()
sha256_hexdigest(s) ==
  LET v == Fold(s, Len(s)) IN <<v % HeadRange, v \div HeadRange>>

\* guess_hash[:6] == "000000"
LeadingZeroes(digest) == digest[1] = 0

\* ------------------------------------------------------ serialisation
RECURSIVE Digits(_)
Digits(n) == IF n < 10 THEN <<n>> ELSE Digits(n \div 10) \o <<n % 10>>

\* json.dumps of one transaction, keys sorted: amount, recipient, sender
DumpTx(tx) == <<tx.amount, tx.recipient, tx.sender>>

RECURSIVE DumpTxs(_)
DumpTxs(txs) ==
  IF txs = <<>> THEN <<>> ELSE DumpTx(Head(txs)) \o DumpTxs(Tail(txs))

\* key in block, for a block taken from JSON that may lack a key
Has(block, key) == key \in DOMAIN block

\* json.dumps(block, sort_keys=True): index, previous_hash, proof,
\* timestamp, transactions, each if the block has it; lengths stand for the
\* JSON delimiters
json_dumps(block) ==
  (IF Has(block, "index") THEN <<block.index>> ELSE <<>>)
    \o (IF Has(block, "previous_hash")
          THEN <<Len(block.previous_hash)>> \o block.previous_hash ELSE <<>>)
    \o (IF Has(block, "proof") THEN <<block.proof>> ELSE <<>>)
    \o (IF Has(block, "timestamp") THEN <<block.timestamp>> ELSE <<>>)
    \o (IF Has(block, "transactions")
          THEN <<Len(block.transactions)>> \o DumpTxs(block.transactions)
          ELSE <<>>)

hash(block) == sha256_hexdigest(json_dumps(block))

\* f"{last_proof}{proof}{last_hash}"
Guess(last_proof, proof, last_hash) ==
  Digits(last_proof) \o Digits(proof) \o last_hash

valid_proof(last_proof, proof, last_hash) ==
  LeadingZeroes(sha256_hexdigest(Guess(last_proof, proof, last_hash)))

\* ------------------------------------------------------ proof of work
NoProof == 0 - 1

RECURSIVE Search(_, _, _)
Search(last_proof, last_hash, proof) ==
  IF proof > MaxProof THEN NoProof
  ELSE IF valid_proof(last_proof, proof, last_hash) THEN proof
  ELSE Search(last_proof, last_hash, proof + 1)

\* a search against the hash the last block stores, not the hash of the
\* last block
proof_of_work_stored_hash(last_block) ==
  Search(last_block.proof, last_block.previous_hash, 0)

\* a search that never tries 0
proof_of_work_from_one(last_block) ==
  Search(last_block.proof, hash(last_block), 1)

proof_of_work(last_block) == Search(last_block.proof, hash(last_block), 0)

\* ---------------------------------------------------- chain validation
RECURSIVE ValidFrom(_, _, _)
ValidFrom(chain_, last_block_, current_index) ==
  IF ~(current_index < Len(chain_)) THEN TRUE
  ELSE LET block == chain_[current_index + 1]
           last_block_hash == hash(last_block_)
       IN IF block.previous_hash /= last_block_hash THEN FALSE
          ELSE IF ~valid_proof(last_block_.proof, block.proof, last_block_hash)
               THEN FALSE
          ELSE ValidFrom(chain_, block, current_index + 1)

\* a validation that checks the hash links alone
RECURSIVE LinkedFrom(_, _, _)
LinkedFrom(chain_, last_block_, current_index) ==
  IF ~(current_index < Len(chain_)) THEN TRUE
  ELSE LET block == chain_[current_index + 1]
       IN IF block.previous_hash /= hash(last_block_) THEN FALSE
          ELSE LinkedFrom(chain_, block, current_index + 1)

valid_chain_links_only(chain_) == LinkedFrom(chain_, chain_[1], 1)

\* a validation that checks the proofs alone
RECURSIVE ProvenFrom(_, _, _)
ProvenFrom(chain_, last_block_, current_index) ==
  IF ~(current_index < Len(chain_)) THEN TRUE
  ELSE LET block == chain_[current_index + 1]
       IN IF ~valid_proof(last_block_.proof, block.proof, hash(last_block_))
            THEN FALSE
          ELSE ProvenFrom(chain_, block, current_index + 1)

valid_chain_proofs_only(chain_) == ProvenFrom(chain_, chain_[1], 1)

\* chain[0] of an empty list raises IndexError
valid_chain_raises(chain_) == Len(chain_) = 0

\* block["previous_hash"], last_block["proof"] or block["proof"] raises
\* KeyError on a block without the key, unless the loop returned before
RECURSIVE KeyErrorFrom(_, _, _)
KeyErrorFrom(chain_, last_block_, current_index) ==
  IF ~(current_index < Len(chain_)) THEN FALSE
  ELSE LET block == chain_[current_index + 1]
           last_block_hash == hash(last_block_)
       IN IF ~Has(block, "previous_hash") THEN TRUE
          ELSE IF block.previous_hash /= last_block_hash THEN FALSE
          ELSE IF ~Has(last_block_, "proof") \/ ~Has(block, "proof") THEN TRUE
          ELSE IF ~valid_proof(last_block_.proof, block.proof, last_block_hash)
               THEN FALSE
          ELSE KeyErrorFrom(chain_, block, current_index + 1)

valid_chain_key_error(chain_) ==
  Len(chain_) > 0 /\ KeyErrorFrom(chain_, chain_[1], 1)

valid_chain(chain_) == ValidFrom(chain_, chain_[1], 1)

\* ------------------------------------------------------------- state
VARIABLES
  chain,                \* chain[n]: Blockchain.chain of node n
  current_transactions, \* current_transactions[n]: the pending pool
  nodes,                \* nodes[n]: Blockchain.nodes, the peer set
  now,                  \* now[n]: the clock time() reads on node n
  last,                 \* the last handler that ran, and what it returned
  receipts,             \* one entry per submitted transaction: the index
                        \* it was promised
  offers,               \* offers[peer]: what a peer outside the network
                        \* answers to GET /chain
  threads,              \* threads[t]: where request thread t of the ledger
                        \* stands in its handler, and its local variables
  validation,           \* a chain handed to valid_chain, the fields of it
                        \* changed since it was built, and the answer
  search,               \* a block handed to proof_of_work, and the answer
  settled,              \* whether mining has stopped in the network, the
                        \* longest chain there was then, and the nodes that
                        \* completed a pass of resolve_conflicts since
  heap                  \* which list object the ledger's pool is and which
                        \* one each block of its chain holds

netVars == <<chain, current_transactions, nodes, now, last, receipts>>

\* what the handlers of a node do not touch: the arguments and results of
\* the functions applied on their own
bench == <<validation, search, settled>>

outside == <<offers, threads, heap, bench>>

vars == <<chain, current_transactions, nodes, now, last, receipts, offers,
          threads, heap, validation, search, settled>>

Last(s) == s[Len(s)]

\* node_identifier = str(uuid4()).replace('-', ''), one per node process
node_identifier(n) == 10 + n

Users == {1}

\* previous_hash=None, or any falsy value
None == <<>>

\* the genesis call new_block(previous_hash=1, proof=100)
GenesisPreviousHash == <<1>>
GenesisProof == 100

\* a block numbered from 0
new_block_zero_based(chain_, transactions, timestamp, proof, previous_hash) ==
  [index |-> Len(chain_),
   timestamp |-> timestamp,
   transactions |-> transactions,
   proof |-> proof,
   previous_hash |->
     IF previous_hash /= None THEN previous_hash ELSE hash(Last(chain_))]

\* Blockchain.new_block: the block it builds
new_block(chain_, transactions, timestamp, proof, previous_hash) ==
  [index |-> Len(chain_) + 1,
   timestamp |-> timestamp,
   transactions |-> transactions,
   proof |-> proof,
   previous_hash |->
     IF previous_hash /= None THEN previous_hash ELSE hash(Last(chain_))]

\* puts the block in front of the chain
chain_insert(chain_, block) == <<block>> \o chain_

\* self.chain.append(block)
chain_append(chain_, block) == Append(chain_, block)

\* time(): strictly increasing on each node, counted in reads
time(n) == now[n]

\* Blockchain.last_block
last_block(n) == Last(chain[n])

\* the record of a handler that ran: which, on which node, what it raised
\* or returned (ret), and the block index it answered with (idx)
Ran(op, n, ret, idx) == [op |-> op, node |-> n, ret |-> ret, idx |-> idx]

Idle == Ran("init", 0, "", 0)

\* blockchain = Blockchain(): empty pool, empty peer set, genesis block
Fresh ==
  /\ now = [n \in Nodes |-> 1]
  /\ chain = [n \in Nodes |->
               <<new_block(<<>>, <<>>, 0, GenesisProof, GenesisPreviousHash)>>]
  /\ current_transactions = [n \in Nodes |-> <<>>]
  /\ nodes = [n \in Nodes |-> {}]
  /\ last = Idle
  /\ receipts = <<>>

\* inserts at the front of the pool
new_transaction_front(pool, sender, recipient, amount) ==
  <<[sender |-> sender, recipient |-> recipient, amount |-> amount]>> \o pool

\* Blockchain.new_transaction: the pool after the append
new_transaction(pool, sender, recipient, amount) ==
  Append(pool, [sender |-> sender, recipient |-> recipient, amount |-> amount])

\* answers with the index of the last block itself
new_transaction_index_last(chain_) == Last(chain_).index

\* Blockchain.new_transaction: the index it returns
new_transaction_index(chain_) == Last(chain_).index + 1

\* POST /transactions/new -> Blockchain.new_transaction; the amount numbers
\* the submissions, so that every submitted transaction is distinct
SubmitTransaction(n, sender, recipient) ==
  LET amount == Len(receipts) + 1
      tx == [sender |-> sender, recipient |-> recipient, amount |-> amount]
      index == new_transaction_index(chain[n])
  IN /\ Len(receipts) < MaxTx
     /\ current_transactions' =
          [current_transactions EXCEPT
             ![n] = new_transaction(@, sender, recipient, amount)]
     /\ receipts' = Append(receipts,
          [tx |-> tx, node |-> n, index |-> index, stale |-> FALSE])
     /\ last' = Ran("new_transaction", n, "ok", index)
     /\ UNCHANGED <<chain, nodes, now>>
     /\ UNCHANGED outside

\* the reward added by mine(): sender "0", this node, amount 1
RewardSender == 0
RewardAmount == 1

Reward(n) == [sender |-> RewardSender, recipient |-> node_identifier(n),
              amount |-> RewardAmount]

\* GET /mine
MineNext(n) ==
  LET last_block_ == last_block(n)
      proof == proof_of_work(last_block_)
      pool == new_transaction(current_transactions[n], RewardSender,
                              node_identifier(n), RewardAmount)
      previous_hash == hash(last_block_)
      block == new_block(chain[n], pool, time(n), proof, previous_hash)
  IN /\ Len(chain[n]) < MaxChain
     /\ now[n] < MaxChain
     /\ proof /= NoProof
     /\ chain' = [chain EXCEPT ![n] = chain_append(@, block)]
     /\ current_transactions' = [current_transactions EXCEPT ![n] = <<>>]
     /\ last' = Ran("mine", n, "ok", block.index)
     /\ now' = [now EXCEPT ![n] = @ + 1]
     /\ UNCHANGED <<nodes, receipts>>
     /\ UNCHANGED outside

\* the addresses a client may post
Addresses ==
  {"http://192.168.0.1:5000", "192.168.0.2:5000", "http://192.168.0.2:5000",
   ""}

\* urlparse(address): the characters before a first colon are a scheme when
\* they start with a letter, what follows "//" up to the next "/" is the
\* netloc, the rest is the path
urlparse(address) ==
  CASE address = "http://192.168.0.2:5000" ->
         [netloc |-> "192.168.0.2:5000", path |-> ""]
    [] address = "http://192.168.0.1:5000" ->
         [netloc |-> "192.168.0.1:5000", path |-> ""]
    [] address = "http://192.168.0.3:5000" ->
         [netloc |-> "192.168.0.3:5000", path |-> ""]
    [] address = "192.168.0.2:5000" ->
         [netloc |-> "", path |-> "192.168.0.2:5000"]
    [] address = "192.168.0.3:5000" ->
         [netloc |-> "", path |-> "192.168.0.3:5000"]
    [] address = "http://192.168.0.2:5000/chain" ->
         [netloc |-> "192.168.0.2:5000", path |-> "/chain"]
    [] address = "localhost:5000" -> [netloc |-> "", path |-> "5000"]
    [] address = "not a url" -> [netloc |-> "", path |-> "not a url"]
    [] address = "/chain" -> [netloc |-> "", path |-> "/chain"]
    [] address = "node2" -> [netloc |-> "", path |-> "node2"]
    [] address = "http://" -> [netloc |-> "", path |-> ""]
    [] address = "" -> [netloc |-> "", path |-> ""]

\* Blockchain.register_node: the peer set after the call, and what it raises
register_node(peers, address) ==
  LET parsed_url == urlparse(address)
  IN IF parsed_url.netloc /= ""
       THEN [nodes |-> peers \cup {parsed_url.netloc}, raised |-> ""]
     ELSE IF parsed_url.path /= ""
       THEN [nodes |-> peers \cup {parsed_url.path}, raised |-> ""]
     ELSE [nodes |-> peers, raised |-> "ValueError"]

\* register_nodes(): what a post of one address does to the node
Registered(n, address) ==
  LET r == register_node(nodes[n], address)
  IN /\ nodes' = [nodes EXCEPT ![n] = r.nodes]
     /\ last' = Ran("register", n, IF r.raised = "" THEN "ok" ELSE r.raised, 0)
     /\ UNCHANGED <<chain, current_transactions, now, receipts>>

\* POST /nodes/register with one address
RegisterNodes(n, address) == Registered(n, address) /\ UNCHANGED outside

\* the addresses at which node n itself listens; no client registers a
\* node as its own peer
OwnAddresses(n) ==
  IF n = 1 THEN {"http://192.168.0.1:5000"}
  ELSE {"192.168.0.2:5000", "http://192.168.0.2:5000"}

\* the node process listening at a peer address
Host(peer) == IF peer = "192.168.0.2:5000" THEN 2 ELSE 1

\* a peer that answers with its first block alone
ResponseFirstBlock(peer, outcome) ==
  [peer |-> peer, raised |-> FALSE, status_code |-> 200, length |-> 1,
   chain |-> SubSeq(chain[Host(peer)], 1, 1)]

\* what requests.get(f"http://{node}/chain") can give: the peer's
\* full_chain() answer, another status, or a raised ConnectionError
Outcomes == {"200", "500", "ConnectionError"}

Response(peer, outcome) ==
  IF outcome = "200"
    THEN [peer |-> peer, raised |-> FALSE, status_code |-> 200,
          length |-> Len(chain[Host(peer)]), chain |-> chain[Host(peer)]]
    ELSE [peer |-> peer, raised |-> outcome = "ConnectionError",
          status_code |-> 500, length |-> 0, chain |-> <<>>]

\* the orders in which "for node in neighbours" may visit a set
Orders(S) ==
  {s \in [1..Cardinality(S) -> S] :
     \A i, j \in 1..Cardinality(S) : i /= j => s[i] /= s[j]}

\* a loop that takes every chain at least as long as the longest so far
RECURSIVE ScanLastWins(_, _, _, _)
ScanLastWins(resps, i, max_length, new_chain) ==
  IF i > Len(resps)
    THEN [raised |-> "", max_length |-> max_length, new_chain |-> new_chain]
  ELSE LET response == resps[i] IN
    IF response.raised
      THEN [raised |-> "ConnectionError", max_length |-> max_length,
            new_chain |-> new_chain]
    ELSE IF response.status_code = 200 /\ response.length >= max_length
      THEN IF valid_chain_raises(response.chain)
             THEN [raised |-> "IndexError", max_length |-> max_length,
                   new_chain |-> new_chain]
           ELSE IF valid_chain_key_error(response.chain)
             THEN [raised |-> "KeyError", max_length |-> max_length,
                   new_chain |-> new_chain]
           ELSE IF valid_chain(response.chain)
             THEN ScanLastWins(resps, i + 1, response.length, response.chain)
           ELSE ScanLastWins(resps, i + 1, max_length, new_chain)
    ELSE ScanLastWins(resps, i + 1, max_length, new_chain)

\* the loop of Blockchain.resolve_conflicts over the responses, in order
RECURSIVE Scan(_, _, _, _)
Scan(resps, i, max_length, new_chain) ==
  IF i > Len(resps)
    THEN [raised |-> "", max_length |-> max_length, new_chain |-> new_chain]
  ELSE LET response == resps[i] IN
    IF response.raised
      THEN [raised |-> "ConnectionError", max_length |-> max_length,
            new_chain |-> new_chain]
    ELSE IF response.status_code = 200 /\ response.length > max_length
      THEN IF valid_chain_raises(response.chain)
             THEN [raised |-> "IndexError", max_length |-> max_length,
                   new_chain |-> new_chain]
           ELSE IF valid_chain_key_error(response.chain)
             THEN [raised |-> "KeyError", max_length |-> max_length,
                   new_chain |-> new_chain]
           ELSE IF valid_chain(response.chain)
             THEN Scan(resps, i + 1, response.length, response.chain)
           ELSE Scan(resps, i + 1, max_length, new_chain)
    ELSE Scan(resps, i + 1, max_length, new_chain)

\* a replacement that does not test new_chain
resolve_conflicts_unchecked(chain_, resps) ==
  LET s == Scan(resps, 1, Len(chain_), None)
  IN IF s.raised /= "" THEN [ret |-> s.raised, chain |-> chain_]
     ELSE [ret |-> "True", chain |-> s.new_chain]

\* Blockchain.resolve_conflicts: what it raises or returns, and the chain
\* the ledger holds afterwards
resolve_conflicts(chain_, resps) ==
  LET s == Scan(resps, 1, Len(chain_), None)
  IN IF s.raised /= "" THEN [ret |-> s.raised, chain |-> chain_]
     ELSE IF s.new_chain /= None THEN [ret |-> "True", chain |-> s.new_chain]
     ELSE [ret |-> "False", chain |-> chain_]

\* a receipt goes stale when the chain it was computed against is replaced
\* while its transaction is still pending
Staled(n) ==
  [k \in 1..Len(receipts) |->
     IF receipts[k].node = n
        /\ \E j \in 1..Len(current_transactions[n]) :
              current_transactions[n][j] = receipts[k].tx
       THEN [receipts[k] EXCEPT !.stale = TRUE]
       ELSE receipts[k]]

\* the responses of one pass: the peers in the order visited, each with
\* the outcome of its request
Responses(order, outcome) ==
  [i \in 1..Len(order) |-> Response(order[i], outcome[order[i]])]

\* consensus(): what a pass does to the node, given the responses of the
\* peers in the order visited
Resolved(n, resps) ==
  LET r == resolve_conflicts(chain[n], resps)
  IN /\ chain' = [chain EXCEPT ![n] = r.chain]
     /\ receipts' = IF r.ret = "True" THEN Staled(n) ELSE receipts
     /\ last' = Ran("resolve", n, r.ret, 0)
     /\ UNCHANGED <<current_transactions, nodes, now>>

\* GET /nodes/resolve, given the responses of the peers in the order visited
ResolveOn(n, resps) == Resolved(n, resps) /\ UNCHANGED outside

\* GET /nodes/resolve, the peers visited in this order with these outcomes
ResolveWith(n, order, outcome) == ResolveOn(n, Responses(order, outcome))

\* GET /nodes/resolve
ResolveConsensus(n) ==
  \E order \in Orders(nodes[n]) :
    \E outcome \in [nodes[n] -> Outcomes] : ResolveWith(n, order, outcome)

NoOffers == <<>>

Threads == {1, 2}

NoBlock == [index |-> 0, timestamp |-> 0, transactions |-> <<>>,
            proof |-> 0, previous_hash |-> <<>>]

NoTx == [sender |-> 0, recipient |-> 0, amount |-> 0]

\* no response of a peer at hand
NoResponse == [peer |-> "", raised |-> FALSE, status_code |-> 0,
               length |-> 0, chain |-> <<>>]

\* no iterator over the peer set yet
NoIterator == -1

\* a request thread between two requests
IdleThread ==
  [pc |-> "idle", last_block |-> NoBlock, last_block_list |-> 0, proof |-> 0,
   previous_hash |-> <<>>, list |-> 0, tx |-> NoTx, index |-> 0,
   timestamp |-> 0, block |-> NoBlock, block_list |-> 0, max_length |-> 0,
   new_chain |-> <<>>, used |-> NoIterator, visited |-> {}, node |-> "",
   response |-> NoResponse]

\* the lists Blockchain.__init__ creates: the one the genesis block took
\* (1) and the empty one that replaced it
\* (2), and the numbers of transactions and of requests received so far
FreshHeap == [pool |-> 2, blocks |-> <<1>>, next |-> 3, submitted |-> 0,
              requests |-> 0]

NoThreads == /\ threads = [t \in Threads |-> IdleThread]
             /\ heap = FreshHeap

\* no chain under validation
NoValidation == [chain |-> <<>>, edits |-> {}, ret |-> ""]

\* no block under search
NoSearch == [last_block |-> NoBlock, done |-> FALSE, proof |-> 0]

\* mining goes on
NoSettling == [stopped |-> FALSE, max_length |-> 0, passed |-> {}]

Unused ==
  /\ NoThreads
  /\ validation = NoValidation
  /\ search = NoSearch
  /\ settled = NoSettling

Init == Fresh /\ offers = NoOffers /\ Unused

Next ==
  \/ \E n \in Nodes : \E sender, recipient \in Users :
       SubmitTransaction(n, sender, recipient)
  \/ \E n \in Nodes : MineNext(n)
  \/ \E n \in Nodes : \E address \in Addresses \ OwnAddresses(n) :
       RegisterNodes(n, address)
  \/ \E n \in Nodes : ResolveConsensus(n)

\* the network: nodes running this code, handlers run one at a time
Spec == Init /\ [][Next]_vars

\* ------------------------------------------- resolving against any peers
\* The ledger of node 1 with peers that are not bound to run this code: each
\* answers GET /chain with any status, any reported length and any chain of
\* well-formed blocks.

Ledger == 1

PeerAddresses ==
  {"http://192.168.0.2:5000", "192.168.0.2:5000", "http://192.168.0.3:5000",
   ""}

Peers == {"192.168.0.2:5000", "192.168.0.3:5000"}

Genesis == new_block(<<>>, <<>>, 0, GenesisProof, GenesisPreviousHash)

\* a chain as node n builds it by mining k - 1 blocks on a genesis block
RECURSIVE HonestChain(_, _)
HonestChain(n, k) ==
  IF k = 1 THEN <<Genesis>>
  ELSE LET c == HonestChain(n, k - 1)
       IN Append(c, new_block(c, <<Reward(n)>>, k - 1,
                              proof_of_work(Last(c)), hash(Last(c))))

\* a chain whose last block carries another proof
BadProof(chain_) ==
  [chain_ EXCEPT ![Len(chain_)].proof = chain_[Len(chain_)].proof + 1]

\* a chain whose last block lacks the key previous_hash
NoPreviousHash(chain_) ==
  [chain_ EXCEPT ![Len(chain_)] =
     [index |-> @.index, timestamp |-> @.timestamp,
      transactions |-> @.transactions, proof |-> @.proof]]

\* a chain mined by a program that numbers its blocks from 0
RECURSIVE ForeignChain(_, _)
ForeignChain(n, k) ==
  IF k = 1 THEN <<[Genesis EXCEPT !.index = 0]>>
  ELSE LET c == ForeignChain(n, k - 1)
       IN Append(c, [new_block(c, <<Reward(n)>>, k - 1,
                               proof_of_work(Last(c)), hash(Last(c)))
                       EXCEPT !.index = k - 1])

OfferedChains ==
  {HonestChain(2, 1), HonestChain(2, 2), HonestChain(2, 3),
   HonestChain(3, 2), HonestChain(3, 3), BadProof(HonestChain(3, 3)),
   <<>>, NoPreviousHash(HonestChain(3, 2)), ForeignChain(3, 2)}

OfferedLengths == 0..(MaxChain + 1)

Offers ==
  {[peer |-> "", raised |-> TRUE, status_code |-> 500,
    length |-> 0, chain |-> <<>>],
   [peer |-> "", raised |-> FALSE, status_code |-> 500,
    length |-> 0, chain |-> <<>>]}
  \cup [peer : {""}, raised : {FALSE}, status_code : {200},
        length : OfferedLengths, chain : OfferedChains]

InitOffered == Fresh /\ offers \in [Peers -> Offers] /\ Unused

\* the responses of one pass over the registered peers, in the order visited
Offered(order) ==
  [i \in 1..Len(order) |-> [offers[order[i]] EXCEPT !.peer = order[i]]]

\* GET /nodes/resolve on the ledger
ResolveOffered(order) == ResolveOn(Ledger, Offered(order))

NextOffered ==
  \/ MineNext(Ledger)
  \/ \E address \in PeerAddresses : RegisterNodes(Ledger, address)
  \/ \E order \in Orders(nodes[Ledger]) : ResolveOffered(order)

SpecOffered == InitOffered /\ [][NextOffered]_vars

\* ------------------------------------------- concurrent request threads
\* app.run serves each request on its own thread, and the handlers take no
\* lock: the threads of the ledger (node 1) interleave between any two
\* accesses to the shared Blockchain object.  A list object is named by a
\* number; a block taken from a peer's JSON holds a list of its own (0).
\* Node 2 is a peer whose handlers run one at a time.

\* the requests the ledger receives in a run
MaxRequests == 5

\* the addresses posted to the ledger: those of node 2 and one at which no
\* node of the network listens
ThreadedAddresses ==
  (Addresses \ OwnAddresses(Ledger)) \cup {"http://192.168.0.3:5000"}

\* list.append on the list object k, seen through every reference to it
PoolAfterAppend(k, tx) ==
  IF heap.pool = k THEN Append(current_transactions[Ledger], tx)
  ELSE current_transactions[Ledger]

ChainAfterAppend(k, tx) ==
  [i \in 1..Len(chain[Ledger]) |->
     IF heap.blocks[i] = k
       THEN [chain[Ledger][i] EXCEPT !.transactions = Append(@, tx)]
       ELSE chain[Ledger][i]]

LocalsAfterAppend(k, tx) ==
  [u \in Threads |->
     [threads[u] EXCEPT
        !.last_block = IF threads[u].last_block_list = k
                         THEN [@ EXCEPT !.transactions = Append(@, tx)]
                         ELSE @,
        !.block = IF threads[u].block_list = k
                    THEN [@ EXCEPT !.transactions = Append(@, tx)]
                    ELSE @]]

\* the mining requests in flight that have not read the clock yet
Mining ==
  {u \in Threads :
     threads[u].pc \in {"mine_reward", "mine_append", "mine_hash", "mine_index",
                        "mine_time"}}

\* mine(): last_block = blockchain.last_block;
\*         proof = blockchain.proof_of_work(last_block)
MineStart(t) ==
  LET last_block_ == last_block(Ledger)
      proof == proof_of_work(last_block_)
  IN /\ threads[t].pc = "idle"
     /\ Len(chain[Ledger]) + Cardinality(Mining) < MaxChain
     /\ now[Ledger] + Cardinality(Mining) < MaxChain
     /\ proof /= NoProof
     /\ heap.requests < MaxRequests
     /\ heap' = [heap EXCEPT !.requests = @ + 1]
     /\ threads' = [threads EXCEPT ![t] =
          [@ EXCEPT !.pc = "mine_reward", !.last_block = last_block_,
                    !.last_block_list = Last(heap.blocks), !.proof = proof]]
     /\ UNCHANGED <<netVars, bench, offers>>

\* new_transaction for the reward: the load of self.current_transactions
MineLoadPool(t) ==
  /\ threads[t].pc = "mine_reward"
  /\ threads' = [threads EXCEPT ![t] =
       [@ EXCEPT !.pc = "mine_append", !.list = heap.pool, !.tx = Reward(Ledger)]]
  /\ UNCHANGED <<netVars, bench, offers, heap>>

\* new_transaction for the reward: the append to the list loaded
MineAppendReward(t) ==
  LET k == threads[t].list
      after == LocalsAfterAppend(k, threads[t].tx)
  IN /\ threads[t].pc = "mine_append"
     /\ current_transactions' =
          [current_transactions EXCEPT ![Ledger] = PoolAfterAppend(k, threads[t].tx)]
     /\ chain' = [chain EXCEPT ![Ledger] = ChainAfterAppend(k, threads[t].tx)]
     /\ threads' = [after EXCEPT ![t] =
          [@ EXCEPT !.pc = "mine_hash", !.list = 0, !.tx = NoTx]]
     /\ UNCHANGED <<nodes, now, last, receipts, bench, offers, heap>>

\* mine(): previous_hash = blockchain.hash(last_block)
MineHash(t) ==
  /\ threads[t].pc = "mine_hash"
  /\ threads' = [threads EXCEPT ![t] =
       [@ EXCEPT !.pc = "mine_index",
                 !.previous_hash = hash(threads[t].last_block)]]
  /\ UNCHANGED <<netVars, bench, offers, heap>>

\* new_block: "index": len(self.chain) + 1, the first value of the block
\* dictionary; other threads run after the call of len
MineIndex(t) ==
  /\ threads[t].pc = "mine_index"
  /\ threads' = [threads EXCEPT ![t] =
       [@ EXCEPT !.pc = "mine_time", !.index = Len(chain[Ledger]) + 1]]
  /\ UNCHANGED <<netVars, bench, offers, heap>>

\* new_block: "timestamp": time(); other threads run after the call
MineTime(t) ==
  /\ threads[t].pc = "mine_time"
  /\ threads' = [threads EXCEPT ![t] =
       [@ EXCEPT !.pc = "mine_build", !.timestamp = time(Ledger)]]
  /\ now' = [now EXCEPT ![Ledger] = @ + 1]
  /\ UNCHANGED <<chain, current_transactions, nodes, last, receipts, bench, offers,
                 heap>>

\* new_block: the load of self.current_transactions and the block
\* dictionary, holding the pool's list object, the index and the time read
\* before
MineBuild(t) ==
  /\ threads[t].pc = "mine_build"
  /\ threads' = [threads EXCEPT ![t] =
       [@ EXCEPT !.pc = "mine_reset",
                 !.block = [new_block(chain[Ledger], current_transactions[Ledger],
                                      threads[t].timestamp, threads[t].proof,
                                      threads[t].previous_hash)
                              EXCEPT !.index = threads[t].index],
                 !.block_list = heap.pool, !.index = 0, !.timestamp = 0]]
  /\ UNCHANGED <<netVars, bench, offers, heap>>

\* new_block: self.current_transactions = []
MineReset(t) ==
  /\ threads[t].pc = "mine_reset"
  /\ current_transactions' = [current_transactions EXCEPT ![Ledger] = <<>>]
  /\ heap' = [heap EXCEPT !.pool = heap.next, !.next = heap.next + 1]
  /\ threads' = [threads EXCEPT ![t] = [@ EXCEPT !.pc = "mine_commit"]]
  /\ UNCHANGED <<chain, nodes, now, last, receipts, bench, offers>>

\* new_block: self.chain.append(block), and the response
MineCommit(t) ==
  /\ threads[t].pc = "mine_commit"
  /\ chain' = [chain EXCEPT ![Ledger] = chain_append(@, threads[t].block)]
  /\ heap' = [heap EXCEPT !.blocks = Append(@, threads[t].block_list)]
  /\ last' = Ran("mine", Ledger, "ok", threads[t].block.index)
  /\ threads' = [threads EXCEPT ![t] = IdleThread]
  /\ UNCHANGED <<current_transactions, nodes, now, receipts, bench, offers>>

\* new_transaction: the load of self.current_transactions
SubmitLoadPool(t, sender, recipient) ==
  /\ threads[t].pc = "idle"
  /\ heap.submitted < MaxTx
  /\ heap.requests < MaxRequests
  /\ heap' = [heap EXCEPT !.submitted = @ + 1, !.requests = @ + 1]
  /\ threads' = [threads EXCEPT ![t] =
       [@ EXCEPT !.pc = "submit_append", !.list = heap.pool,
                 !.tx = [sender |-> sender, recipient |-> recipient,
                         amount |-> heap.submitted + 1]]]
  /\ UNCHANGED <<netVars, bench, offers>>

\* new_transaction: the append to the list loaded
SubmitAppend(t) ==
  LET k == threads[t].list
      after == LocalsAfterAppend(k, threads[t].tx)
  IN /\ threads[t].pc = "submit_append"
     /\ current_transactions' =
          [current_transactions EXCEPT ![Ledger] = PoolAfterAppend(k, threads[t].tx)]
     /\ chain' = [chain EXCEPT ![Ledger] = ChainAfterAppend(k, threads[t].tx)]
     /\ threads' = [after EXCEPT ![t] = [@ EXCEPT !.pc = "submit_return", !.list = 0]]
     /\ UNCHANGED <<nodes, now, last, receipts, bench, offers, heap>>

\* new_transaction: return self.last_block["index"] + 1
SubmitReturn(t) ==
  LET index == new_transaction_index(chain[Ledger])
  IN /\ threads[t].pc = "submit_return"
     /\ receipts' = Append(receipts,
          [tx |-> threads[t].tx, node |-> Ledger, index |-> index,
           stale |-> FALSE])
     /\ last' = Ran("new_transaction", Ledger, "ok", index)
     /\ threads' = [threads EXCEPT ![t] = IdleThread]
     /\ UNCHANGED <<chain, current_transactions, nodes, now, bench, offers, heap>>

\* resolve_conflicts: neighbours = self.nodes; new_chain = None;
\* max_length = len(self.chain)
ResolveStart(t) ==
  /\ threads[t].pc = "idle"
  /\ heap.requests < MaxRequests
  /\ heap' = [heap EXCEPT !.requests = @ + 1]
  /\ threads' = [threads EXCEPT ![t] =
       [@ EXCEPT !.pc = "resolve_next", !.max_length = Len(chain[Ledger]),
                 !.new_chain = None]]
  /\ UNCHANGED <<netVars, bench, offers>>

\* POST /nodes/register on the ledger, served while its other requests run
RegisterThreaded(address) ==
  /\ heap.requests < MaxRequests
  /\ heap' = [heap EXCEPT !.requests = @ + 1]
  /\ Registered(Ledger, address)
  /\ UNCHANGED <<offers, threads, bench>>

\* the answers a request to a peer address of the ledger can get: node 2
\* listens at its address, no node of the network at any other
ThreadedOutcomes(peer) ==
  IF peer = "192.168.0.2:5000" THEN Outcomes ELSE Outcomes \ {"200"}

\* resolve_conflicts: "for node in neighbours", one advance of the iterator
\* over self.nodes itself (neighbours is the same set object).  The first
\* advance follows the creation of the iterator, which notes the size of
\* the set; every advance, the one after the last peer included, raises
\* RuntimeError when the set has another size by then.
ResolveNext(t) ==
  LET used == IF threads[t].used = NoIterator
                THEN Cardinality(nodes[Ledger]) ELSE threads[t].used
      rest == nodes[Ledger] \ threads[t].visited
  IN /\ threads[t].pc = "resolve_next"
     /\ IF used /= Cardinality(nodes[Ledger])
          THEN /\ threads' = [threads EXCEPT ![t] = IdleThread]
               /\ last' = Ran("resolve", Ledger, "RuntimeError", 0)
        ELSE IF rest = {}
          THEN /\ threads' = [threads EXCEPT ![t] =
                    [@ EXCEPT !.pc = "resolve_swap", !.used = NoIterator,
                              !.visited = {}]]
               /\ UNCHANGED last
        ELSE /\ \E node \in rest :
                  threads' = [threads EXCEPT ![t] =
                    [@ EXCEPT !.pc = "resolve_get", !.used = used,
                              !.visited = @ \cup {node}, !.node = node]]
             /\ UNCHANGED last
     /\ UNCHANGED <<chain, current_transactions, nodes, now, receipts, bench, offers,
                    heap>>

\* resolve_conflicts: response = requests.get(f"http://{node}/chain"); the
\* peer answers with the chain it holds when the request reaches it
ResolveGet(t, outcome) ==
  LET response == Response(threads[t].node, outcome)
  IN /\ threads[t].pc = "resolve_get"
     /\ outcome \in ThreadedOutcomes(threads[t].node)
     /\ IF response.raised
          THEN /\ threads' = [threads EXCEPT ![t] = IdleThread]
               /\ last' = Ran("resolve", Ledger, "ConnectionError", 0)
          ELSE /\ threads' = [threads EXCEPT ![t] =
                    [@ EXCEPT !.pc = "resolve_check", !.node = "",
                              !.response = response]]
               /\ UNCHANGED last
     /\ UNCHANGED <<chain, current_transactions, nodes, now, receipts, bench, offers,
                    heap>>

\* resolve_conflicts: the body of the loop on the response received
ResolveCheck(t) ==
  LET s == Scan(<<threads[t].response>>, 1, threads[t].max_length,
                threads[t].new_chain)
  IN /\ threads[t].pc = "resolve_check"
     /\ IF s.raised /= ""
          THEN /\ threads' = [threads EXCEPT ![t] = IdleThread]
               /\ last' = Ran("resolve", Ledger, s.raised, 0)
          ELSE /\ threads' = [threads EXCEPT ![t] =
                    [@ EXCEPT !.pc = "resolve_next", !.response = NoResponse,
                              !.max_length = s.max_length,
                              !.new_chain = s.new_chain]]
               /\ UNCHANGED last
     /\ UNCHANGED <<chain, current_transactions, nodes, now, receipts, bench, offers,
                    heap>>

\* resolve_conflicts: if new_chain: self.chain = new_chain
ResolveSwap(t) ==
  /\ threads[t].pc = "resolve_swap"
  /\ IF threads[t].new_chain /= None
       THEN /\ chain' = [chain EXCEPT ![Ledger] = threads[t].new_chain]
            /\ heap' = [heap EXCEPT
                 !.blocks = [i \in 1..Len(threads[t].new_chain) |-> 0]]
            /\ receipts' = Staled(Ledger)
            /\ last' = Ran("resolve", Ledger, "True", 0)
       ELSE /\ last' = Ran("resolve", Ledger, "False", 0)
            /\ UNCHANGED <<chain, heap, receipts>>
  /\ threads' = [threads EXCEPT ![t] = IdleThread]
  /\ UNCHANGED <<current_transactions, nodes, now, bench, offers>>

NextThreaded ==
  \/ \E t \in Threads : MineStart(t)
  \/ \E t \in Threads : MineLoadPool(t)
  \/ \E t \in Threads : MineAppendReward(t)
  \/ \E t \in Threads : MineHash(t)
  \/ \E t \in Threads : MineIndex(t)
  \/ \E t \in Threads : MineTime(t)
  \/ \E t \in Threads : MineBuild(t)
  \/ \E t \in Threads : MineReset(t)
  \/ \E t \in Threads : MineCommit(t)
  \/ \E t \in Threads : \E sender, recipient \in Users :
       SubmitLoadPool(t, sender, recipient)
  \/ \E t \in Threads : SubmitAppend(t)
  \/ \E t \in Threads : SubmitReturn(t)
  \/ \E t \in Threads : ResolveStart(t)
  \/ \E t \in Threads : ResolveNext(t)
  \/ \E t \in Threads : \E outcome \in Outcomes : ResolveGet(t, outcome)
  \/ \E t \in Threads : ResolveCheck(t)
  \/ \E t \in Threads : ResolveSwap(t)
  \/ \E address \in ThreadedAddresses : RegisterThreaded(address)
  \/ MineNext(2)

\* the ledger served by concurrent request threads
SpecThreaded == Init /\ [][NextThreaded]_vars

\* ------------------------------------------------- chains under validation
\* The ledger builds a chain by submissions and mining; the chain is then
\* taken as GET /chain returns it, some of its fields are changed, and
\* valid_chain is applied to the result.

\* full_chain: the chain as the response carries it
full_chain(n) == [chain |-> chain[n], length |-> Len(chain[n])]

Building == validation = NoValidation

BuildSubmit(sender, recipient) ==
  Building /\ SubmitTransaction(Ledger, sender, recipient)

BuildMine == Building /\ MineNext(Ledger)

TakeChain ==
  /\ Building
  /\ validation' = [chain |-> full_chain(Ledger).chain, edits |-> {}, ret |-> ""]
  /\ UNCHANGED <<netVars, offers, threads, heap, search, settled>>

\* the values a field may be changed to
ProofValues == 0..MaxProof \cup {GenesisProof}

HashValues(chain_) ==
  {GenesisPreviousHash} \cup {hash(chain_[i]) : i \in 1..Len(chain_)}

\* one field of one block takes another value; each field name is changed
\* at most once
Tamper(i, field, value) ==
  /\ validation.chain /= <<>>
  /\ validation.ret = ""
  /\ i \in 1..Len(validation.chain)
  /\ \A e \in validation.edits : e[1] /= field
  /\ \/ /\ field = "proof"
        /\ value /= validation.chain[i].proof
        /\ validation' = [validation EXCEPT
             !.chain[i].proof = value, !.edits = @ \cup {<<field, i>>}]
     \/ /\ field = "previous_hash"
        /\ value /= validation.chain[i].previous_hash
        /\ validation' = [validation EXCEPT
             !.chain[i].previous_hash = value, !.edits = @ \cup {<<field, i>>}]
  /\ UNCHANGED <<netVars, offers, threads, heap, search, settled>>

\* valid_chain applied to the chain
Validate ==
  /\ validation.chain /= <<>>
  /\ validation.ret = ""
  /\ validation' = [validation EXCEPT
       !.ret = IF valid_chain(validation.chain) THEN "True" ELSE "False"]
  /\ UNCHANGED <<netVars, offers, threads, heap, search, settled>>

NextValid ==
  \/ \E sender, recipient \in Users : BuildSubmit(sender, recipient)
  \/ BuildMine
  \/ TakeChain
  \/ \E i \in 1..MaxChain : \E value \in ProofValues : Tamper(i, "proof", value)
  \/ \E i \in 1..MaxChain : \E value \in HashValues(validation.chain) :
       Tamper(i, "previous_hash", value)
  \/ Validate

SpecValid == Init /\ [][NextValid]_vars

\* --------------------------------------------------- blocks under search
\* proof_of_work applied to a last block drawn from a bounded set

SearchInputs ==
  [index : 1..MaxChain, timestamp : {0}, transactions : {<<>>, <<Reward(Ledger)>>},
   proof : ProofValues, previous_hash : {GenesisPreviousHash}]

InitPow ==
  /\ Fresh /\ offers = NoOffers /\ NoThreads /\ validation = NoValidation
  /\ settled = NoSettling
  /\ search \in [last_block : SearchInputs, done : {FALSE}, proof : {0}]

ProofOfWork ==
  /\ ~search.done
  /\ search' = [search EXCEPT !.done = TRUE,
                              !.proof = proof_of_work(search.last_block)]
  /\ UNCHANGED <<netVars, offers, threads, heap, validation, settled>>

NextPow == ProofOfWork

SpecPow == InitPow /\ [][NextPow]_vars

\* ------------------------------------------------- addresses registered
\* register_node applied to whatever a client posts

PostedAddresses ==
  {"http://192.168.0.2:5000", "192.168.0.2:5000", "http://192.168.0.3:5000",
   "192.168.0.3:5000", "http://192.168.0.2:5000/chain", "localhost:5000",
   "not a url", "/chain", "node2", "http://", ""}

RegisterPosted(address) == RegisterNodes(Ledger, address)

NextRegister == \E address \in PostedAddresses : RegisterPosted(address)

SpecRegister == Init /\ [][NextRegister]_vars

\* ------------------------------------------------- the network settling
\* The nodes mine, register each other and resolve; once every node has
\* every other node as a peer mining may stop for good, and from then on
\* the nodes only resolve, every peer answering.

\* the address under which node n is known to the others
PeerName(n) == IF n = 1 THEN "192.168.0.1:5000" ELSE "192.168.0.2:5000"

FullyConnected ==
  \A n \in Nodes : \A other \in Nodes \ {n} : PeerName(other) \in nodes[n]

RECURSIVE Longest(_)
Longest(S) ==
  IF S = {} THEN 0
  ELSE LET n == CHOOSE x \in S : TRUE
           rest == Longest(S \ {n})
       IN IF Len(chain[n]) > rest THEN Len(chain[n]) ELSE rest

StillMining == ~settled.stopped

SettleMine(n) == StillMining /\ MineNext(n)

SettleRegister(n, address) == StillMining /\ RegisterNodes(n, address)

SettleResolve(n) == StillMining /\ ResolveConsensus(n)

\* the last block was mined
StopMining ==
  /\ StillMining
  /\ FullyConnected
  /\ settled' = [stopped |-> TRUE, max_length |-> Longest(Nodes),
                 passed |-> {}]
  /\ UNCHANGED <<netVars, offers, threads, heap, validation, search>>

\* GET /nodes/resolve on node n, every peer answering
SettlePass(n) ==
  /\ settled.stopped
  /\ \E order \in Orders(nodes[n]) :
       Resolved(n, Responses(order, [peer \in nodes[n] |-> "200"]))
  /\ settled' = [settled EXCEPT !.passed = @ \cup {n}]
  /\ UNCHANGED <<offers, threads, heap, validation, search>>

NextSettle ==
  \/ \E n \in Nodes : SettleMine(n)
  \/ \E n \in Nodes : \E address \in Addresses \ OwnAddresses(n) :
       SettleRegister(n, address)
  \/ \E n \in Nodes : SettleResolve(n)
  \/ StopMining
  \/ \E n \in Nodes : SettlePass(n)

SpecSettle == Init /\ [][NextSettle]_vars

\* =============================================================== claims

\* the hash link and the proof of work of every block after the first
ChainLinked(chain_) ==
  \A i \in 2..Len(chain_) :
    /\ chain_[i].previous_hash = hash(chain_[i - 1])
    /\ valid_proof(chain_[i - 1].proof, chain_[i].proof, hash(chain_[i - 1]))

\* the node whose reward a block carries
MinedBy(block, n) ==
  /\ block.transactions /= <<>>
  /\ Last(block.transactions) = Reward(n)

InBlock(tx, block) ==
  \E j \in 1..Len(block.transactions) : block.transactions[j] = tx

InPool(tx, n) ==
  \E j \in 1..Len(current_transactions[n]) : current_transactions[n][j] = tx

\* C1: in every state reached by handlers run one at a time, on every node,
\* each block after the first stores the hash of its predecessor and a proof
\* that verifies against the predecessor's proof and hash.
C1_ChainLinked == \A n \in Nodes : ChainLinked(chain[n])

\* C1's case: a node adopted a peer's block and then mined on top of it
C1_Witness ==
  \E n \in Nodes : \E m \in Nodes \ {n} :
    /\ Len(chain[n]) = 3
    /\ MinedBy(chain[n][2], m)
    /\ MinedBy(chain[n][3], n)

\* the pool holds the submitted transactions in the order submitted
InSubmissionOrder(pool) ==
  \A i, j \in 1..Len(pool) : i < j => pool[i].amount < pool[j].amount

\* no pending transaction is also in a block of the node's chain, and no
\* submitted transaction is in two blocks of it
NoStaleEntries(n) ==
  /\ \A j \in 1..Len(current_transactions[n]) :
       \A i \in 1..Len(chain[n]) :
         ~InBlock(current_transactions[n][j], chain[n][i])
  /\ \A k \in 1..Len(receipts) :
       \A i, j \in 1..Len(chain[n]) :
         InBlock(receipts[k].tx, chain[n][i])
           /\ InBlock(receipts[k].tx, chain[n][j]) => i = j

\* C5: mineNext puts into the new block exactly the pending transactions, in
\* submission order, followed by the reward, and leaves the pool empty; no
\* pending transaction is already in a block, so a later block holds none of
\* the transactions of an earlier one.
C5_MineDrainsPool ==
  [][/\ (\A n \in Nodes :
           MineNext(n) =>
             /\ Last(chain'[n]).transactions
                  = current_transactions[n] \o <<Reward(n)>>
             /\ InSubmissionOrder(current_transactions[n])
             /\ current_transactions'[n] = <<>>)
      /\ (\A m \in Nodes : NoStaleEntries(m)')]_vars

\* C5's case: two submitted transactions and the reward in one mined block,
\* and an empty pool after it
C5_Witness ==
  \E n \in Nodes :
    /\ current_transactions[n] = <<>>
    /\ Len(Last(chain[n]).transactions) = 3
    /\ Last(chain[n]).transactions[1].amount = 1
    /\ Last(chain[n]).transactions[2].amount = 2
    /\ Last(chain[n]).transactions[3] = Reward(n)

\* C7 as stated: a committed transaction is in the block whose index its
\* submission returned, whatever ran in between.
C7_PromisedIndex ==
  \A k \in 1..Len(receipts) : \A n \in Nodes : \A i \in 1..Len(chain[n]) :
    InBlock(receipts[k].tx, chain[n][i])
      => chain[n][i].index = receipts[k].index

\* C7 amended: the submission returns the last block's index + 1, and the
\* transaction is committed in the block with that index unless
\* resolveConsensus replaced the chain while the transaction was pending.
C7_PromisedIndexUnlessReplaced ==
  \A k \in 1..Len(receipts) : \A n \in Nodes : \A i \in 1..Len(chain[n]) :
    ~receipts[k].stale /\ InBlock(receipts[k].tx, chain[n][i])
      => chain[n][i].index = receipts[k].index

\* C7's case: a transaction submitted after the chain had grown, committed
\* with no replacement in between
C7_Witness ==
  \E k \in 1..Len(receipts) :
    /\ ~receipts[k].stale
    /\ receipts[k].index = 3
    /\ Len(chain[receipts[k].node]) >= 3
    /\ InBlock(receipts[k].tx, chain[receipts[k].node][3])

\* valid_chain returns True on the chain
Passes(chain_) ==
  /\ ~valid_chain_raises(chain_)
  /\ ~valid_chain_key_error(chain_)
  /\ valid_chain(chain_)

\* the positions of the responses that answer successfully with a reported
\* length greater than the local one and a chain that passes valid_chain
Qualifying(chain_, resps) ==
  {i \in 1..Len(resps) :
     /\ ~resps[i].raised
     /\ resps[i].status_code = 200
     /\ resps[i].length > Len(chain_)
     /\ Passes(resps[i].chain)}

\* what C3 says of one pass, given what it returned and the chain it left
ResolveAsSpecified(chain_, resps, ret, after) ==
  LET Q == Qualifying(chain_, resps)
  IN /\ ret = "True" <=> Q /= {}
     /\ ret = "True" =>
          \E i \in Q : /\ after = resps[i].chain
                        /\ \A j \in Q : resps[j].length <= resps[i].length
     /\ ret = "False" => after = chain_

\* C3: resolveConsensus returns true exactly when some peer answers
\* successfully with a greater reported length and a valid chain; it then
\* holds the chain of a qualifying peer of greatest reported length, and when
\* it returns false the chain is unchanged.
C3_ResolveResult ==
  [][\A order \in Orders(nodes[Ledger]) :
       ResolveOffered(order) =>
         ResolveAsSpecified(chain[Ledger], Offered(order), last'.ret,
                            chain'[Ledger])]_vars

\* C3 for the passes that return: the same, when no request raised
C3_ResolveResultWhenReturning ==
  [][\A order \in Orders(nodes[Ledger]) :
       ResolveOffered(order) /\ last'.ret \in {"True", "False"} =>
         ResolveAsSpecified(chain[Ledger], Offered(order), last'.ret,
                            chain'[Ledger])]_vars

\* the responses without those of the peers that failed
RECURSIVE Answered(_)
Answered(resps) ==
  IF resps = <<>> THEN <<>>
  ELSE IF Head(resps).raised \/ Head(resps).status_code /= 200
    THEN Answered(Tail(resps))
  ELSE <<Head(resps)>> \o Answered(Tail(resps))

\* C4: a peer whose request fails, by a connection error or a status other
\* than 200, is only skipped: the pass completes and gives what it would
\* give had the failing peers not been registered.
C4_FailedPeerSkipped ==
  [][\A order \in Orders(nodes[Ledger]) :
       ResolveOffered(order) /\ Answered(Offered(order)) /= Offered(order) =>
         LET expected ==
               resolve_conflicts(chain[Ledger], Answered(Offered(order)))
         IN /\ last'.ret \in {"True", "False"}
            /\ last'.ret = expected.ret
            /\ chain'[Ledger] = expected.chain]_vars

\* C4 for a status other than 200 alone
C4_BadStatusSkipped ==
  [][\A order \in Orders(nodes[Ledger]) :
       /\ ResolveOffered(order)
       /\ Answered(Offered(order)) /= Offered(order)
       /\ \A i \in 1..Len(order) : ~Offered(order)[i].raised
       => LET expected ==
                resolve_conflicts(chain[Ledger], Answered(Offered(order)))
          IN /\ last'.ret = expected.ret
             /\ chain'[Ledger] = expected.chain]_vars

\* the chains offered are what they are meant to be
OffersAsMeant ==
  /\ \A n \in {2, 3} : \A k \in 1..3 :
       ChainLinked(HonestChain(n, k)) /\ valid_chain(HonestChain(n, k))
  /\ ~valid_chain(BadProof(HonestChain(3, 3)))

\* C2: with the requests of one ledger interleaved, every chain the ledger
\* holds still has, for every block after the first, the hash of its
\* predecessor and a proof that verifies against it.
C2_ThreadedChainLinked == ChainLinked(chain[Ledger])

\* the number of times a transaction occurs in a list of transactions
RECURSIVE Occurrences(_, _)
Occurrences(txs, tx) ==
  IF txs = <<>> THEN 0
  ELSE (IF Head(txs) = tx THEN 1 ELSE 0) + Occurrences(Tail(txs), tx)

\* the number of places of a ledger, its pool and its blocks, holding tx
RECURSIVE InBlocks(_, _, _)
InBlocks(chain_, k, tx) ==
  IF k = 0 THEN 0
  ELSE Occurrences(chain_[k].transactions, tx) + InBlocks(chain_, k - 1, tx)

Places(n, tx) ==
  Occurrences(current_transactions[n], tx)
    + InBlocks(chain[n], Len(chain[n]), tx)

\* no request of the ledger is in flight
Quiescent == \A t \in Threads : threads[t].pc = "idle"

\* the ledger still holds the chain it built itself
OwnChain == heap.blocks[1] /= 0

\* C6: under any interleaving of submissions and block creation on one
\* ledger, once the requests have returned every submitted transaction is in
\* exactly one place, the pool or one block of the chain.
C6_ExactlyOnePlace ==
  Quiescent /\ OwnChain =>
    \A k \in 1..Len(receipts) :
      receipts[k].node = Ledger => Places(Ledger, receipts[k].tx) = 1

\* C6, second half: a block appended to the chain never gains a transaction
C6_CommittedBlocksFrozen ==
  [][OwnChain /\ heap'.blocks[1] /= 0 =>
       \A i \in 1..Len(chain[Ledger]) :
         i <= Len(chain'[Ledger]) =>
           chain'[Ledger][i].transactions = chain[Ledger][i].transactions]_vars

\* the pair of blocks at positions i - 1 and i passes both checks
PairHolds(chain_, i) ==
  /\ chain_[i].previous_hash = hash(chain_[i - 1])
  /\ valid_proof(chain_[i - 1].proof, chain_[i].proof, hash(chain_[i - 1]))

\* exactly one field was changed, at position i
OnlyEdit(field, i) == validation.edits = {<<field, i>>}

\* C8 as stated: changing the previous_hash or the proof of any one block of
\* a chain built by mining, whatever the position and the length, makes
\* valid_chain return false.
C8_TamperDetected ==
  /\ validation.ret /= ""
  /\ Cardinality(validation.edits) = 1
  => validation.ret = "False"

\* C8, amended: in a chain of two blocks or more, changing the previous_hash
\* of any one block, or the proof of any block but the last, makes valid_chain
\* return false; changing the proof of the last block does so exactly when
\* the new proof fails valid_proof against the block before; a chain of one
\* block stays valid.
C8_TamperDetectedWhereChecked ==
  LET n == Len(validation.chain)
  IN validation.ret /= "" =>
       \A i \in 1..n :
         /\ n >= 2 /\ OnlyEdit("previous_hash", i) => validation.ret = "False"
         /\ n >= 2 /\ i < n /\ OnlyEdit("proof", i) => validation.ret = "False"
         /\ n >= 2 /\ OnlyEdit("proof", n) =>
              (validation.ret = "False" <=>
                 ~valid_proof(validation.chain[n - 1].proof,
                              validation.chain[n].proof,
                              hash(validation.chain[n - 1])))
         /\ n = 1 /\ Cardinality(validation.edits) = 1 =>
              validation.ret = "True"

\* a chain of three blocks whose first block had its previous_hash changed,
\* and one whose last block took another proof that verifies
C8_Witness ==
  /\ Len(validation.chain) = 3
  /\ validation.ret = "False"
  /\ OnlyEdit("previous_hash", 1)

C8_WitnessLastProof ==
  /\ Len(validation.chain) >= 2
  /\ validation.ret = "True"
  /\ OnlyEdit("proof", Len(validation.chain))

\* C9: valid_chain returns true exactly when every pair of adjacent blocks
\* has the hash link and a proof that verifies; the first block is checked
\* against nothing, so a chain of one block is valid whatever its fields.
C9_ValidIffPairsHold ==
  validation.ret /= "" =>
    /\ validation.ret = "True" <=>
         \A i \in 2..Len(validation.chain) : PairHolds(validation.chain, i)
    /\ Len(validation.chain) = 1 => validation.ret = "True"

\* a chain refused for its last pair alone, the pairs before it holding
C9_Witness ==
  /\ Len(validation.chain) = 3
  /\ validation.ret = "False"
  /\ PairHolds(validation.chain, 2)
  /\ ~PairHolds(validation.chain, 3)

\* a chain of one block, its fields changed, found valid
C9_WitnessGenesis ==
  /\ Len(validation.chain) = 1
  /\ Cardinality(validation.edits) = 2
  /\ validation.ret = "True"

\* C10: proof_of_work returns the smallest natural number whose guess
\* verifies against the last block's proof and hash: the proof returned
\* verifies and no smaller one does.
C10_SmallestProof ==
  LET last_block_ == search.last_block
  IN search.done /\ search.proof /= NoProof =>
       /\ search.proof >= 0
       /\ valid_proof(last_block_.proof, search.proof, hash(last_block_))
       /\ \A p \in 0..(search.proof - 1) :
            ~valid_proof(last_block_.proof, p, hash(last_block_))

\* a search that went past three proofs that fail
C10_Witness == search.done /\ search.proof >= 3

\* every search of the bounded inputs ends with a proof
C10_SearchEnds == search.done => search.proof /= NoProof

\* C11: a freshly constructed ledger holds one block, with index 1, proof
\* 100 and the sentinel previous_hash 1, an empty pool and no peer.
C11_FreshLedger ==
  last = Idle =>
    \A n \in Nodes :
      /\ Len(chain[n]) = 1
      /\ chain[n][1].index = 1
      /\ chain[n][1].proof = 100
      /\ chain[n][1].previous_hash = <<1>>
      /\ chain[n][1].transactions = <<>>
      /\ current_transactions[n] = <<>>
      /\ nodes[n] = {}

\* the ledgers as constructed, before any request
C11_Witness == last = Idle /\ \A n \in Nodes : Len(chain[n]) = 1

\* a host and a port, the form of a peer address
HostPorts == {"192.168.0.2:5000", "192.168.0.3:5000"}

\* the addresses posted that carry a network location or are a bare host:port
WellFormed ==
  {"http://192.168.0.2:5000", "192.168.0.2:5000", "http://192.168.0.3:5000",
   "192.168.0.3:5000", "http://192.168.0.2:5000/chain", "localhost:5000"}

\* C12: registering an address with no network location that is no bare
\* host:port either, such as "not a url", fails and leaves the peer set as it
\* was.
C12_MalformedRejected ==
  [][\A address \in PostedAddresses \ WellFormed :
       RegisterPosted(address) =>
         last'.ret = "ValueError" /\ nodes' = nodes]_vars

\* C12, second half: only host:port strings are ever in the peer set
C12_OnlyHostPorts == nodes[Ledger] \subseteq HostPorts

\* C12 for the addresses with neither a network location nor a path
C12_EmptyRejected ==
  [][\A address \in {"", "http://"} :
       RegisterPosted(address) =>
         last'.ret = "ValueError" /\ nodes' = nodes]_vars

\* the boolean a pass returned, or that it raised
Returned(ret) == IF ret \in {"True", "False"} THEN ret ELSE "raised"

\* what one pass over the offers gives in every other order of visit
SameInEveryOrder(ret, after) ==
  \A other \in Orders(nodes[Ledger]) :
    LET r == resolve_conflicts(chain[Ledger], Offered(other))
    IN Returned(ret) = Returned(r.ret) /\ Len(after) = Len(r.chain)

\* C13: for the same chain and the same responses, every order of visit of
\* the peers gives the same returned value and the same final chain length.
C13_OrderIrrelevant ==
  [][\A order \in Orders(nodes[Ledger]) :
       ResolveOffered(order) =>
         SameInEveryOrder(last'.ret, chain'[Ledger])]_vars

\* the registered peers that answer report the length of the chain they
\* send, and send a chain on which valid_chain does not raise
TruthfulOffers ==
  \A peer \in nodes[Ledger] :
    offers[peer].status_code = 200 =>
      /\ offers[peer].length = Len(offers[peer].chain)
      /\ ~valid_chain_raises(offers[peer].chain)
      /\ ~valid_chain_key_error(offers[peer].chain)

\* C13 for peers that answer truthfully
C13_OrderIrrelevantWhenTruthful ==
  [][\A order \in Orders(nodes[Ledger]) :
       ResolveOffered(order) /\ TruthfulOffers =>
         SameInEveryOrder(last'.ret, chain'[Ledger])]_vars

\* C13 for the returned value alone, when valid_chain raises on no chain
C13_SameBooleanUnlessRaising ==
  [][\A order \in Orders(nodes[Ledger]) :
       /\ ResolveOffered(order)
       /\ \A peer \in nodes[Ledger] :
            /\ ~valid_chain_raises(offers[peer].chain) \/ offers[peer].status_code /= 200
            /\ ~valid_chain_key_error(offers[peer].chain)
       => \A other \in Orders(nodes[Ledger]) :
            Returned(last'.ret) =
              Returned(resolve_conflicts(chain[Ledger], Offered(other)).ret)]_vars

\* the responses without those that answer 200 with a chain on which
\* valid_chain raises or returns False
RECURSIVE WithoutInvalid(_)
WithoutInvalid(resps) ==
  IF resps = <<>> THEN <<>>
  ELSE IF Head(resps).status_code = 200 /\ ~Passes(Head(resps).chain)
    THEN WithoutInvalid(Tail(resps))
  ELSE <<Head(resps)>> \o WithoutInvalid(Tail(resps))

\* no request of the pass meets a transport failure
AllReached(resps) == \A i \in 1..Len(resps) : ~resps[i].raised

\* C14: a peer that answers with an empty chain, a block lacking a key or a
\* chain failing the puzzle is only skipped: the pass raises nothing and
\* gives what it would give had those peers not been registered.
C14_InvalidChainSkipped ==
  [][\A order \in Orders(nodes[Ledger]) :
       /\ ResolveOffered(order)
       /\ AllReached(Offered(order))
       /\ WithoutInvalid(Offered(order)) /= Offered(order)
       => LET expected ==
                resolve_conflicts(chain[Ledger], WithoutInvalid(Offered(order)))
          IN /\ last'.ret \in {"True", "False"}
             /\ last'.ret = expected.ret
             /\ chain'[Ledger] = expected.chain]_vars

\* C14 for the chains that fail the hash link or the puzzle alone
C14_PuzzleInvalidSkipped ==
  [][\A order \in Orders(nodes[Ledger]) :
       /\ ResolveOffered(order)
       /\ AllReached(Offered(order))
       /\ WithoutInvalid(Offered(order)) /= Offered(order)
       /\ \A i \in 1..Len(order) :
            /\ Offered(order)[i].chain /= <<>>
            /\ ~valid_chain_key_error(Offered(order)[i].chain)
       => LET expected ==
                resolve_conflicts(chain[Ledger], WithoutInvalid(Offered(order)))
          IN /\ last'.ret \in {"True", "False"}
             /\ last'.ret = expected.ret
             /\ chain'[Ledger] = expected.chain]_vars

\* C14, last part: the chain of the ledger is never one that fails valid_chain
C14_NeverAdopted ==
  [][\A order \in Orders(nodes[Ledger]) :
       ResolveOffered(order) /\ chain'[Ledger] /= chain[Ledger] =>
         Passes(chain'[Ledger])]_vars

\* the qualifying responses of greatest reported length
Greatest(chain_, resps) ==
  LET Q == Qualifying(chain_, resps)
  IN {i \in Q : \A j \in Q : resps[j].length <= resps[i].length}

\* C15 as stated: among the peers reporting valid chains of the same
\* greatest length, the one visited last gives the chain adopted.
C15_LastOfGreatestWins ==
  [][\A order \in Orders(nodes[Ledger]) :
       ResolveOffered(order) /\ last'.ret = "True" =>
         LET G == Greatest(chain[Ledger], Offered(order))
         IN \E i \in G : /\ \A j \in G : j <= i
                         /\ chain'[Ledger] = Offered(order)[i].chain]_vars

\* C15, amended: among the peers reporting valid chains of the same greatest
\* length, the one visited first gives the chain adopted.
C15_FirstOfGreatestWins ==
  [][\A order \in Orders(nodes[Ledger]) :
       ResolveOffered(order) /\ last'.ret = "True" =>
         LET G == Greatest(chain[Ledger], Offered(order))
         IN \E i \in G : /\ \A j \in G : i <= j
                         /\ chain'[Ledger] = Offered(order)[i].chain]_vars

\* a pass that adopted a chain when both peers offered valid chains, not the
\* same, with the same reported length
C15_Witness ==
  /\ last.op = "resolve" /\ last.ret = "True"
  /\ nodes[Ledger] = Peers
  /\ \A peer \in Peers :
       offers[peer].status_code = 200 /\ Passes(offers[peer].chain)
  /\ \E p, q \in Peers :
       /\ offers[p].length = offers[q].length
       /\ offers[p].chain /= offers[q].chain
       /\ chain[Ledger] = offers[p].chain

\* every block of the chain carries its position, counted from 1
IndexIsPosition(chain_) ==
  \A i \in 1..Len(chain_) : Has(chain_[i], "index") /\ chain_[i].index = i

\* C16: in every reachable state, also after a peer's chain was adopted, the
\* block at 0-based position i has index i + 1.
C16_IndexIsPosition == IndexIsPosition(chain[Ledger])

\* C16 in a network of nodes that all run this program
C16_IndexIsPositionInNetwork == \A n \in Nodes : IndexIsPosition(chain[n])

\* C17: the chain is never empty, whatever the peers answer, an empty chain
\* with a large reported length included.
C17_ChainNeverEmpty == Len(chain[Ledger]) >= 1

\* a pass over a peer that answers 200 with an empty chain and a reported
\* length greater than the length of the ledger's chain
C17_Witness ==
  /\ last.op = "resolve"
  /\ \E peer \in nodes[Ledger] :
       /\ offers[peer].status_code = 200
       /\ offers[peer].chain = <<>>
       /\ offers[peer].length > Len(chain[Ledger])

\* C17 in a network of nodes that all run this program, submissions included
C17_ChainNeverEmptyInNetwork == \A n \in Nodes : Len(chain[n]) >= 1

\* the first chain is the beginning of the second, block for block
IsPrefix(before, after) ==
  /\ Len(before) <= Len(after)
  /\ \A i \in 1..Len(before) : after[i] = before[i]

\* C18: a submission, a registration or a mined block leaves every block
\* already in the chain as it was, all fields included; a mined block adds
\* exactly one block, at the end of its node's chain.
C18_AppendOnly ==
  [][last'.op \in {"new_transaction", "register", "mine"} =>
       \A n \in Nodes :
         /\ IsPrefix(chain[n], chain'[n])
         /\ IF last'.op = "mine" /\ last'.node = n
              THEN Len(chain'[n]) = Len(chain[n]) + 1
              ELSE chain'[n] = chain[n]]_vars

\* a block mined on a chain of two blocks, one of them holding a submitted
\* transaction
C18_Witness ==
  /\ last.op = "mine"
  /\ Len(chain[last.node]) = 3
  /\ \E k \in 1..Len(receipts) :
       /\ receipts[k].node = last.node
       /\ InBlock(receipts[k].tx, chain[last.node][2])

\* C19: the number of blocks of the chain never decreases: a chain adopted
\* by resolveConsensus has more blocks than the chain it replaces, whatever
\* length and chain the peer answered with.
C19_NeverShorter ==
  [][\A order \in Orders(nodes[Ledger]) :
       ResolveOffered(order) =>
         /\ Len(chain'[Ledger]) >= Len(chain[Ledger])
         /\ last'.ret = "True" => Len(chain'[Ledger]) > Len(chain[Ledger])]_vars

\* C19, what the comparison of line 117 does ensure: the chain adopted is
\* that of an answer whose reported length exceeds the number of blocks
\* replaced, and it has more blocks if that answer reported the length of
\* the chain it carried; a pass that does not return true leaves the chain.
C19_ReportedLonger ==
  [][\A order \in Orders(nodes[Ledger]) :
       ResolveOffered(order) =>
         IF last'.ret = "True"
           THEN \E i \in 1..Len(order) :
                  LET response == Offered(order)[i]
                  IN /\ response.chain = chain'[Ledger]
                     /\ response.length > Len(chain[Ledger])
                     /\ response.length = Len(response.chain) =>
                          Len(chain'[Ledger]) > Len(chain[Ledger])
           ELSE chain'[Ledger] = chain[Ledger]]_vars

\* a pass that adopted a chain with fewer blocks than its answer reported
C19_Witness ==
  /\ last.op = "resolve" /\ last.ret = "True"
  /\ \E peer \in nodes[Ledger] :
       /\ offers[peer].chain = chain[Ledger]
       /\ offers[peer].length > Len(offers[peer].chain)

\* C19 in a network of nodes that all run this program
C19_NeverShorterInNetwork ==
  [][\A n \in Nodes : Len(chain'[n]) >= Len(chain[n])]_vars

\* every node completed a pass since mining stopped
AllPassed == settled.stopped /\ settled.passed = Nodes

\* C20: with every node registered at every other and every peer answering,
\* once mining has stopped and every node has completed one pass, all chains
\* have the greatest length there was when mining stopped, and a further pass
\* returns false and changes nothing.
C20_Convergence ==
  /\ [](AllPassed => \A n \in Nodes : Len(chain[n]) = settled.max_length)
  /\ [][AllPassed =>
          \A n \in Nodes :
            SettlePass(n) => last'.ret = "False" /\ chain' = chain]_vars

\* the last node to pass adopted a longer chain
C20_Witness ==
  /\ AllPassed
  /\ last.op = "resolve" /\ last.ret = "True"
  /\ settled.max_length >= 2

====
